---- MODULE Spec2Model ----
(***************************************************************************)
(* Model of the esosa front-end: the topic extractor of the home page     *)
(* (extractTopicsWithSources) as an operator over JSON-shaped values, and  *)
(* the home page itself (generateIdeas and its fetch continuations) as a   *)
(* state machine; then the download link of the episode modal, the chat    *)
(* modal, the settings page and the login guard, each under a              *)
(* specification of its own.                                               *)
(*                                                                         *)
(* JSON values are records with a presence tag p:                          *)
(*   "absent" (key missing, JS undefined), "null", or "val".               *)
(* Numbers are fixed-point integers in units of 1/Scale, so that the two   *)
(* divisions of the normalisation (by 100 and by 10) are exact on inputs   *)
(* given in tenths.                                                        *)
(***************************************************************************)
EXTENDS Integers, Sequences, FiniteSets, TLC

\* ------------------------------------------------------------------------
\* Bounds of the model
\* ------------------------------------------------------------------------
MaxTopics == 9
MaxPosts == 6
MaxRequests == 3
MaxPathLen == 4
MaxSends == 2
MaxInputLen == 2
MaxSaves == 2
MaxEdits == 1
MaxSubmits == 2
MaxPasswordLen == 2

\* ------------------------------------------------------------------------
\* JSON values
\* ------------------------------------------------------------------------
Scale == 10 * 100

Tenths(t) == t * (Scale \div 10)

AbsentNum == [p |-> "absent", v |-> 0]
NullNum == [p |-> "null", v |-> 0]
NumVal(n) == [p |-> "val", v |-> n]

AbsentStr == [p |-> "absent", v |-> ""]
NullStr == [p |-> "null", v |-> ""]
StrVal(s) == [p |-> "val", v |-> s]

AbsentArr == [p |-> "absent", v |-> <<>>]
NullArr == [p |-> "null", v |-> <<>>]
ArrVal(s) == [p |-> "val", v |-> s]

\* JS truthiness of a number, a string and an array (an empty array is truthy).
TruthyNum(x) == x.p = "val" /\ x.v # 0
TruthyStr(x) == x.p = "val" /\ x.v # ""
TruthyArr(x) == x.p = "val"

\* a || b on numbers, strings and arrays: a when truthy, else b.
OrNum(a, b) == IF TruthyNum(a) THEN a ELSE b
OrStr(a, b) == IF TruthyStr(a) THEN a ELSE b
OrArr(a, b) == IF TruthyArr(a) THEN a ELSE b

\* obj?.field : undefined when obj is undefined or null.
OptArr(obj, field) == IF obj.p = "val" THEN obj[field] ELSE AbsentArr

Min(a, b) == IF a < b THEN a ELSE b
Max(a, b) == IF a > b THEN a ELSE b

\* Array.prototype.slice(from, to) with 0 <= from <= to, on a sequence.
Slice(s, from, to) == SubSeq(s, from + 1, Min(to, Len(s)))

\* ------------------------------------------------------------------------
\* extractTopicsWithSources
\* ------------------------------------------------------------------------
TopicLimit == 8
DefaultRelevance == Tenths(80)

aiTopicsSkippingEmpty(data) ==
    IF data.ranked_topics.p = "val" /\ Len(data.ranked_topics.v) > 0
    THEN data.ranked_topics.v
    ELSE OrArr(OptArr(data.ai_topic_suggestions, "topics"), ArrVal(<<>>)).v

\* data.ranked_topics || data.ai_topic_suggestions?.topics || []
aiTopics(data) ==
    OrArr(data.ranked_topics,
          OrArr(OptArr(data.ai_topic_suggestions, "topics"), ArrVal(<<>>))).v

twitterPosts(data) ==
    OrArr(OptArr(data.twitter_results, "sample_posts"),
          OrArr(OptArr(data.twitter_results, "trending_topics"), ArrVal(<<>>))).v

tiktokPosts(data) ==
    OrArr(OptArr(data.tiktok_results, "sample_posts"),
          OrArr(OptArr(data.tiktok_results, "sample_captions"), ArrVal(<<>>))).v

threadsPosts(data) ==
    OrArr(OptArr(data.threads_results, "sample_posts"), ArrVal(<<>>)).v

redditPostsPrimaryOnly(data) ==
    OrArr(OptArr(data.reddit_results, "sample_posts"), ArrVal(<<>>)).v

redditPosts(data) ==
    OrArr(OptArr(data.reddit_results, "sample_posts"),
          OrArr(OptArr(data.reddit_results, "sample_titles"), ArrVal(<<>>))).v

\* topic.relevance_score || topic.score || 8
rawRelevance(topic) ==
    OrNum(topic.relevance_score, OrNum(topic.score, NumVal(DefaultRelevance))).v

scaleRelevanceInclusive(raw) ==
    IF raw >= Tenths(100) THEN raw \div 100
    ELSE IF raw >= Tenths(10) THEN raw \div 10
    ELSE raw

\* The scale inference of lines 72-78.
scaleRelevance(raw) ==
    IF raw > Tenths(100) THEN raw \div 100
    ELSE IF raw > Tenths(10) THEN raw \div 10
    ELSE raw

clampUpperOnly(x) == Min(x, Scale)

\* Math.min(Math.max(x, 0), 1)
clamp(x) == Min(Max(x, 0), Scale)

normalizeRelevance(raw) == clamp(scaleRelevance(raw))

topicTitleZeroBased(topic, index) ==
    OrStr(topic.title, OrStr(topic.topic, StrVal("Topic " \o ToString(index)))).v

\* topic.title || topic.topic || `Topic ${index + 1}`
topicTitle(topic, index) ==
    OrStr(topic.title, OrStr(topic.topic, StrVal("Topic " \o ToString(index + 1)))).v

\* topic.description || topic.reasoning || ''
topicDescription(topic) ==
    OrStr(topic.description, OrStr(topic.reasoning, StrVal(""))).v

topicSourcesSlidingPairs(data, index) ==
    [twitter |-> Slice(twitterPosts(data), index, index + 2),
     tiktok  |-> Slice(tiktokPosts(data), index, index + 1),
     threads |-> Slice(threadsPosts(data), index, index + 1),
     reddit  |-> Slice(redditPosts(data), index, index + 1)]

topicSourcesAllPairs(data, index) ==
    [twitter |-> Slice(twitterPosts(data), index * 2, index * 2 + 2),
     tiktok  |-> Slice(tiktokPosts(data), index * 2, index * 2 + 2),
     threads |-> Slice(threadsPosts(data), index * 2, index * 2 + 2),
     reddit  |-> Slice(redditPosts(data), index * 2, index * 2 + 2)]

topicSourcesOverlapping(data, index) ==
    [twitter |-> Slice(twitterPosts(data), index * 2, index * 2 + 2),
     tiktok  |-> Slice(tiktokPosts(data), index, index + 2),
     threads |-> Slice(threadsPosts(data), index, index + 2),
     reddit  |-> Slice(redditPosts(data), index, index + 2)]

topicSources(data, index) ==
    [twitter |-> Slice(twitterPosts(data), index * 2, index * 2 + 2),
     tiktok  |-> Slice(tiktokPosts(data), index, index + 1),
     threads |-> Slice(threadsPosts(data), index, index + 1),
     reddit  |-> Slice(redditPosts(data), index, index + 1)]

\* The record pushed by the forEach callback for the entry at `index`.
makeTopic(data, topic, index) ==
    [id             |-> index,
     title          |-> topicTitle(topic, index),
     description    |-> topicDescription(topic),
     relevanceScore |-> normalizeRelevance(rawRelevance(topic)),
     sources        |-> topicSources(data, index)]

shownTopicsOffByOne(data) == Slice(aiTopics(data), 0, TopicLimit + 1)

\* aiTopics.slice(0, 8)
shownTopics(data) == Slice(aiTopics(data), 0, TopicLimit)

extractThrowsNoOptionalChain(data) ==
    \/ data.p # "val"
    \/ ~TruthyArr(data.ranked_topics) /\ data.ai_topic_suggestions.p # "val"
    \/ \E i \in 1..Len(shownTopics(data)) : shownTopics(data)[i].p # "val"

\* Reading a property of null or undefined raises a TypeError: data itself
\* (data.ranked_topics) or an entry visited by the loop (topic.relevance_score).
extractThrows(data) ==
    \/ data.p # "val"
    \/ \E i \in 1..Len(shownTopics(data)) : shownTopics(data)[i].p # "val"

extractTopicsWithSources(data) ==
    IF extractThrows(data)
    THEN [threw |-> TRUE, topics |-> <<>>]
    ELSE [threw |-> FALSE,
          topics |-> [i \in 1..Len(shownTopics(data)) |->
                        makeTopic(data, shownTopics(data)[i], i - 1)]]

\* ------------------------------------------------------------------------
\* Research responses given to the extractor
\* ------------------------------------------------------------------------
RawTenths == {-30, -5, 0, 6, 10, 11, 70, 80, 100, 101, 550, 750, 1000, 1500}
RawValues == {Tenths(t) : t \in RawTenths}

\* An entry of the AI-topic sequence: an object with optional fields, or null.
MkEntry(title, topic, description, reasoning, relevance_score, score) ==
    [p |-> "val", title |-> title, topic |-> topic, description |-> description,
     reasoning |-> reasoning, relevance_score |-> relevance_score, score |-> score]

NullEntry ==
    [p |-> "null", title |-> AbsentStr, topic |-> AbsentStr, description |-> AbsentStr,
     reasoning |-> AbsentStr, relevance_score |-> AbsentNum, score |-> AbsentNum]

BaseEntry(i) ==
    MkEntry(StrVal("t" \o ToString(i)), AbsentStr, StrVal("d"), AbsentStr,
            NumVal(Tenths(70)), AbsentNum)

TitleEntries ==
    {MkEntry(ti, to, de, re, AbsentNum, AbsentNum) :
        ti \in {AbsentStr, NullStr, StrVal(""), StrVal("A")},
        to \in {AbsentStr, StrVal(""), StrVal("B")},
        de \in {AbsentStr, StrVal("D")},
        re \in {AbsentStr, StrVal("R")}}

ScoreEntries ==
    {MkEntry(AbsentStr, AbsentStr, AbsentStr, AbsentStr, rs, sc) :
        rs \in {AbsentNum, NullNum} \cup {NumVal(r) : r \in RawValues},
        sc \in {AbsentNum, NumVal(0), NumVal(Tenths(50)), NumVal(Tenths(750))}}

Entries == TitleEntries \cup ScoreEntries \cup {NullEntry}

\* A sequence of n entries: BaseEntry everywhere but at position k.
TopicSeq(n, k, e) == [i \in 1..n |-> IF i = k THEN e ELSE BaseEntry(i)]

BaseSeq(n) == [i \in 1..n |-> BaseEntry(i)]

PostsOf(label, m) == [j \in 1..m |-> [src |-> label, pos |-> j - 1]]

AbsentSuggestions == [p |-> "absent", topics |-> AbsentArr]
NullSuggestions == [p |-> "null", topics |-> AbsentArr]
Suggestions(ts) == [p |-> "val", topics |-> ts]

MkTwitter(state, primary, secondary) ==
    [p |-> state, sample_posts |-> primary, trending_topics |-> secondary]
MkTiktok(state, primary, secondary) ==
    [p |-> state, sample_posts |-> primary, sample_captions |-> secondary]
MkThreads(state, primary) ==
    [p |-> state, sample_posts |-> primary, trending_topics |-> AbsentArr,
     sample_captions |-> AbsentArr, sample_titles |-> AbsentArr]
\* Threads results that carry posts under one of the alternate names.
AlternateNames == {"trending_topics", "sample_captions", "sample_titles"}
MkThreadsWith(primary, name, posts) ==
    [MkThreads("val", primary) EXCEPT ![name] = posts]
MkReddit(state, primary, secondary) ==
    [p |-> state, sample_posts |-> primary, sample_titles |-> secondary]

PostCases(label, sizes) ==
    {AbsentArr, NullArr} \cup {ArrVal(PostsOf(label, m)) : m \in sizes}
FallbackCases(label) == {AbsentArr, ArrVal(PostsOf(label, 3))}

TwitterCases ==
    {MkTwitter("absent", AbsentArr, AbsentArr), MkTwitter("null", AbsentArr, AbsentArr)}
    \cup {MkTwitter("val", s, f) :
            s \in PostCases("twitter.sample_posts", 0..MaxPosts),
            f \in FallbackCases("twitter.trending_topics")}
TiktokCases ==
    {MkTiktok("absent", AbsentArr, AbsentArr), MkTiktok("null", AbsentArr, AbsentArr)}
    \cup {MkTiktok("val", s, f) :
            s \in PostCases("tiktok.sample_posts", {MaxPosts}),
            f \in FallbackCases("tiktok.sample_captions")}
ThreadsCases ==
    {MkThreads("absent", AbsentArr), MkThreads("null", AbsentArr)}
    \cup {MkThreads("val", s) : s \in PostCases("threads.sample_posts", {0, 2, MaxPosts})}
    \cup {MkThreadsWith(s, name, ArrVal(PostsOf("threads.alternate", 3))) :
            s \in PostCases("threads.sample_posts", {2}), name \in AlternateNames}
RedditCases ==
    {MkReddit("absent", AbsentArr, AbsentArr), MkReddit("null", AbsentArr, AbsentArr)}
    \cup {MkReddit("val", s, f) :
            s \in PostCases("reddit.sample_posts", {1}),
            f \in FallbackCases("reddit.sample_titles")}

MkData(ranked, suggestions, tw, tt, th, rd) ==
    [p |-> "val", ranked_topics |-> ranked, ai_topic_suggestions |-> suggestions,
     twitter_results |-> tw, tiktok_results |-> tt, threads_results |-> th,
     reddit_results |-> rd]

NullData ==
    [p |-> "null", ranked_topics |-> AbsentArr, ai_topic_suggestions |-> AbsentSuggestions,
     twitter_results |-> MkTwitter("absent", AbsentArr, AbsentArr),
     tiktok_results |-> MkTiktok("absent", AbsentArr, AbsentArr),
     threads_results |-> MkThreads("absent", AbsentArr),
     reddit_results |-> MkReddit("absent", AbsentArr, AbsentArr)]

FullTwitter == MkTwitter("val", ArrVal(PostsOf("twitter.sample_posts", MaxPosts)), AbsentArr)
FullTiktok == MkTiktok("val", ArrVal(PostsOf("tiktok.sample_posts", MaxPosts)), AbsentArr)
FullThreads == MkThreads("val", ArrVal(PostsOf("threads.sample_posts", MaxPosts)))
FullReddit == MkReddit("val", ArrVal(PostsOf("reddit.sample_posts", MaxPosts)), AbsentArr)

\* Where the AI-topic sequence ts sits in the response: in one of the two
\* fields, in both, or behind a first field that is null or empty.
Placement(w, ts) ==
    CASE w = 1 -> <<ArrVal(ts), AbsentSuggestions>>
      [] w = 2 -> <<AbsentArr, Suggestions(ArrVal(ts))>>
      [] w = 3 -> <<NullArr, Suggestions(ArrVal(ts))>>
      [] w = 4 -> <<ArrVal(ts), Suggestions(ArrVal(<<BaseEntry(1)>>))>>
      [] w = 5 -> <<ArrVal(ts), NullSuggestions>>
      [] w = 6 -> <<ArrVal(<<>>), Suggestions(ArrVal(ts))>>

\* Responses without any AI topic.
NoTopicPlacements ==
    {<<r, s>> : r \in {AbsentArr, NullArr, ArrVal(<<>>)},
                s \in {AbsentSuggestions, NullSuggestions, Suggestions(AbsentArr),
                       Suggestions(NullArr), Suggestions(ArrVal(<<>>))}}

\* Rich topic entries over full platform results.
TopicFocus(d) ==
    \E n \in 1..MaxTopics, k \in 1..MaxTopics, e \in Entries, w \in 1..2 :
        /\ k <= n
        /\ d = MkData(Placement(w, TopicSeq(n, k, e))[1], Placement(w, TopicSeq(n, k, e))[2],
                      FullTwitter, FullTiktok, FullThreads, FullReddit)

\* Plain topic entries over every shape of the twitter results.
TwitterFocus(d) ==
    \/ \E n \in 0..MaxTopics, w \in 1..6, tw \in TwitterCases :
        d = MkData(Placement(w, BaseSeq(n))[1], Placement(w, BaseSeq(n))[2],
                   tw, FullTiktok, FullThreads, FullReddit)
    \/ \E pl \in NoTopicPlacements, tw \in TwitterCases :
        d = MkData(pl[1], pl[2], tw, FullTiktok, FullThreads, FullReddit)

\* Plain topic entries over the shapes of the three other platforms' results.
OthersFocus(d) ==
    \/ \E n \in 0..MaxTopics, tt \in TiktokCases, th \in ThreadsCases, rd \in RedditCases :
        d = MkData(ArrVal(BaseSeq(n)), AbsentSuggestions, FullTwitter, tt, th, rd)
    \/ \E pl \in NoTopicPlacements,
          tt \in {FullTiktok, MkTiktok("null", AbsentArr, AbsentArr)},
          th \in {FullThreads, MkThreads("absent", AbsentArr)},
          rd \in {FullReddit, MkReddit("val", NullArr, AbsentArr)} :
        d = MkData(pl[1], pl[2], MkTwitter("absent", AbsentArr, AbsentArr), tt, th, rd)

\* ------------------------------------------------------------------------
\* Persisted topic list (localStorage key podcastTopics)
\* ------------------------------------------------------------------------
\* JSON.stringify of a Topic: its members as key/value pairs in insertion order.
stringifyTopic(t) ==
    <<<<"id", t.id>>, <<"title", t.title>>, <<"description", t.description>>,
      <<"relevanceScore", t.relevanceScore>>, <<"sources", t.sources>>>>

JSONstringify(ts) == [i \in 1..Len(ts) |-> stringifyTopic(ts[i])]

parseTopicWithoutSources(txt) ==
    [id |-> txt[1][2], title |-> txt[2][2], description |-> txt[3][2],
     relevanceScore |-> txt[4][2],
     sources |-> [twitter |-> <<>>, tiktok |-> <<>>, threads |-> <<>>, reddit |-> <<>>]]

\* JSON.parse of one serialized Topic: an object with the members of the text.
parseTopic(txt) ==
    [id |-> txt[1][2], title |-> txt[2][2], description |-> txt[3][2],
     relevanceScore |-> txt[4][2], sources |-> txt[5][2]]

JSONparse(text) == [i \in 1..Len(text) |-> parseTopic(text[i])]

NoItem == [p |-> "null", v |-> <<>>]
Item(text) == [p |-> "val", v |-> text]

\* useState initialiser: saved ? JSON.parse(saved) : []
loadTopics(saved) == IF saved.p = "val" THEN JSONparse(saved.v) ELSE <<>>

saveTopicsAlways(saved, ts) == Item(JSONstringify(ts))

\* useEffect on [topics]: the list is written only when it is not empty.
saveTopics(saved, ts) == IF Len(ts) > 0 THEN Item(JSONstringify(ts)) ELSE saved

\* ------------------------------------------------------------------------
\* Responses of POST /api/research and POST /api/episode
\* ------------------------------------------------------------------------
NoPlatforms(ranked) ==
    MkData(ranked, AbsentSuggestions, MkTwitter("absent", AbsentArr, AbsentArr),
           MkTiktok("absent", AbsentArr, AbsentArr), MkThreads("absent", AbsentArr),
           MkReddit("absent", AbsentArr, AbsentArr))

TwoTopics == MkData(ArrVal(BaseSeq(2)), AbsentSuggestions,
                    FullTwitter, FullTiktok, FullThreads, FullReddit)
OneTopic == NoPlatforms(ArrVal(<<MkEntry(StrVal("A"), AbsentStr, AbsentStr, AbsentStr,
                                         NumVal(Tenths(750)), AbsentNum)>>))
\* An object without any of the fields read, such as {"detail": "..."} or {}.
NoTopics == NoPlatforms(AbsentArr)
NullTopic == NoPlatforms(ArrVal(<<NullEntry>>))

Bodies == {TwoTopics, OneTopic, NoTopics, NullTopic, NullData}

\* delivered: fetch resolved; ok: status 2xx; parses: the body is JSON text.
\* A response with an error status carries an error-detail object (which has
\* none of the fields the extractor reads) or a body that is not JSON.
NetworkFailure == [delivered |-> FALSE, ok |-> FALSE, parses |-> FALSE, body |-> NullData]
Responses ==
    {NetworkFailure}
    \cup {[delivered |-> TRUE, ok |-> ok, parses |-> FALSE, body |-> NullData] : ok \in BOOLEAN}
    \cup {[delivered |-> TRUE, ok |-> TRUE, parses |-> TRUE, body |-> b] : b \in Bodies}
    \cup {[delivered |-> TRUE, ok |-> FALSE, parses |-> TRUE, body |-> NoTopics]}

NoError == NullStr
NoTopic == NullStr
NoEpisode == [p |-> "null", topic |-> "", error |-> ""]
EpisodeOutline(title) == [p |-> "val", topic |-> title, error |-> ""]
EpisodeError(msg) == [p |-> "val", topic |-> "", error |-> msg]

\* The message of the error that reaches .catch, and err.message || '...'.
rejectionMessage(resp) ==
    IF ~resp.delivered THEN StrVal("Failed to fetch")
    ELSE IF ~resp.parses THEN StrVal("Unexpected token < in JSON at position 0")
    ELSE StrVal("Cannot read properties of null")

errorText(err) == OrStr(err, StrVal("Failed to generate ideas"))

\* The promise chain of generateIdeas ends in .catch when fetch rejects,
\* res.json() rejects or extractTopicsWithSources throws; the status of the
\* response is not read.
researchRejects(resp) ==
    \/ ~resp.delivered
    \/ ~resp.parses
    \/ extractTopicsWithSources(resp.body).threw

\* ------------------------------------------------------------------------
\* The topic card: the relevance badge
\* ------------------------------------------------------------------------
\* Math.round of a non-negative number of hundredths given in units of
\* 1/Scale: halves go up.
roundPercent(x) == (x * 100 + Scale \div 2) \div Scale

\* Math.min(Math.round((topic.relevanceScore || 0.8) * 100), 100)
cardPercent(topic) ==
    Min(roundPercent(OrNum(NumVal(topic.relevanceScore), NumVal(Tenths(8))).v), 100)

\* ------------------------------------------------------------------------
\* The episode modal: the download link of the PDF report
\* ------------------------------------------------------------------------
\* Strings that are taken apart are sequences of one-character strings.
Separators == {"/", "\\"}
PathChars == Separators \cup {"a", "b"}
Paths == UNION {[1..n -> PathChars] : n \in 0..MaxPathLen}

AbsentReport == [p |-> "absent", v |-> <<>>]
NullReport == [p |-> "null", v |-> <<>>]
Report(path) == [p |-> "val", v |-> path]

\* The episodeData prop of the modal: null until the outline arrives, then
\* the response body with or without its pdf_report field.
NullEpisodeData == [p |-> "null", pdf_report |-> AbsentReport]
MkEpisodeData(report) == [p |-> "val", pdf_report |-> report]
EpisodeDatas ==
    {NullEpisodeData, MkEpisodeData(AbsentReport), MkEpisodeData(NullReport)}
    \cup {MkEpisodeData(Report(path)) : path \in Paths}

\* The two builds: a fixed origin (part_005) or VITE_API_URL (EpisodeModal.jsx).
ApiUrls == {"http://localhost:8000", "VITE_API_URL"}
OutputDir == <<"/", "o", "u", "t", "p", "u", "t", "/">>

\* String.prototype.split(sep) for a one-character separator.
RECURSIVE split(_, _)
split(s, sep) ==
    IF \A i \in 1..Len(s) : s[i] # sep
    THEN <<s>>
    ELSE LET i == CHOOSE k \in 1..Len(s) :
                      s[k] = sep /\ \A j \in 1..(k - 1) : s[j] # sep
         IN <<SubSeq(s, 1, i - 1)>> \o split(SubSeq(s, i + 1, Len(s)), sep)

\* Array.prototype.pop() on a non-empty array: its last element.
pop(a) == a[Len(a)]

filenameForwardOnly(report) == pop(split(report, "/"))

\* const filename = pdf_report.split('/').pop().split('\\').pop()
filename(report) == pop(split(pop(split(report, "/")), "\\"))

NoUrl == [p |-> "null", v |-> <<>>]

getPdfUrl(episodeData, apiUrl) ==
    LET report == IF episodeData.p = "val" THEN episodeData.pdf_report ELSE AbsentReport
    IN IF ~(report.p = "val" /\ report.v # <<>>)
       THEN NoUrl
       ELSE [p |-> "val", v |-> <<apiUrl>> \o OutputDir \o filename(report.v)]

\* ------------------------------------------------------------------------
\* The chat modal: texts, responses of POST /api/chat
\* ------------------------------------------------------------------------
\* A text is a sequence of string fragments: single characters for what the
\* user types, whole strings for server and built-in messages.
AbsentText == [p |-> "absent", v |-> <<>>]
NullText == [p |-> "null", v |-> <<>>]
Text(v) == [p |-> "val", v |-> v]

TruthyText(x) == x.p = "val" /\ x.v # <<>>
OrText(a, b) == IF TruthyText(a) THEN a ELSE b

IsSpace(c) == c = " "

\* String.prototype.trim()
RECURSIVE trim(_)
trim(s) ==
    IF s = <<>> THEN s
    ELSE IF IsSpace(s[1]) THEN trim(Tail(s))
    ELSE IF IsSpace(s[Len(s)]) THEN trim(SubSeq(s, 1, Len(s) - 1))
    ELSE s

InputChars == {" ", "a"}
Inputs == UNION {[1..n -> InputChars] : n \in 0..MaxInputLen}

Greeting == <<"Hey! I'm your podcast assistant. Need help brainstorming topics, refining ideas, or anything else?">>
CouldNotProcess == <<"Sorry, I couldn't process that.">>
SomethingWentWrong == <<"Oops! Something went wrong. Please try again in a moment.">>
ConnectionError == <<"Connection error. Make sure the backend is running.">>

AiMessage(text) == [text |-> text, sender |-> "ai"]
UserMessage(text) == [text |-> text, sender |-> "user"]

\* Parsed bodies of the chat endpoint: an object with or without a response
\* and a detail, or the JSON value null.
ReplyCases(s) == {AbsentText, NullText, Text(<<>>), Text(<<s>>)}
MkChatBody(response, detail) == [p |-> "val", response |-> response, detail |-> detail]
NullChatBody == [p |-> "null", response |-> AbsentText, detail |-> AbsentText]
ChatBodies ==
    {MkChatBody(r, d) : r \in ReplyCases("reply"), d \in ReplyCases("detail")}
    \cup {NullChatBody}

ChatNetworkFailure == [delivered |-> FALSE, ok |-> FALSE, parses |-> FALSE, body |-> NullChatBody]
ChatResponses ==
    {ChatNetworkFailure}
    \cup {[delivered |-> TRUE, ok |-> ok, parses |-> FALSE, body |-> NullChatBody] : ok \in BOOLEAN}
    \cup {[delivered |-> TRUE, ok |-> ok, parses |-> TRUE, body |-> b] :
            ok \in BOOLEAN, b \in ChatBodies}

\* What reaches the catch block: a rejected fetch, a rejected response.json(),
\* or the TypeError of data.response on null.
chatThrows(resp) ==
    \/ ~resp.delivered
    \/ ~resp.parses
    \/ resp.body.p # "val"

messageTextPassThrough(resp) ==
    OrText(resp.body.response, OrText(resp.body.detail, Text(CouldNotProcess))).v

\* let messageText = data.response || data.detail || "..." and its override.
messageText(resp) ==
    IF ~resp.ok /\ TruthyText(resp.body.detail)
    THEN SomethingWentWrong
    ELSE OrText(resp.body.response, OrText(resp.body.detail, Text(CouldNotProcess))).v

\* ------------------------------------------------------------------------
\* The settings page: the configuration object, the form, the posted body
\* ------------------------------------------------------------------------
AbsentBool == [p |-> "absent", v |-> FALSE]
NullBool == [p |-> "null", v |-> FALSE]
BoolVal(b) == [p |-> "val", v |-> b]

\* parseInt('') of a cleared number input; JSON.stringify writes it as null.
NaN == [p |-> "nan", v |-> 0]

\* obj?.field
OptStr(obj, field) == IF obj.p = "val" THEN obj[field] ELSE AbsentStr
OptNum(obj, field) == IF obj.p = "val" THEN obj[field] ELSE AbsentNum
OptBool(obj, field) == IF obj.p = "val" THEN obj[field] ELSE AbsentBool

\* x !== false
NotFalse(x) == ~(x.p = "val" /\ x.v = FALSE)

CommaSpace == <<",", " ">>

\* Array.prototype.join(sep) on an array of strings.
RECURSIVE join(_, _)
join(a, sep) ==
    IF Len(a) = 0 THEN <<>>
    ELSE IF Len(a) = 1 THEN a[1]
    ELSE a[1] \o sep \o join(Tail(a), sep)

\* arr?.join(', ')
OptJoin(arr) == IF arr.p = "val" THEN Text(join(arr.v, CommaSpace)) ELSE AbsentText

\* s.split(',').map(k => k.trim()).filter(k => k)
splitList(s) ==
    LET parts == split(s, ",")
        trimmed == [i \in 1..Len(parts) |-> trim(parts[i])]
        kept(k) == k # <<>>
    IN SelectSeq(trimmed, kept)

\* A JSON object is a record over every key the page reads or writes; a key
\* the object does not have is tagged "absent".
MkPodcast(state, name, host, site) ==
    [p |-> state, name |-> name, host_name |-> host, website |-> site]
AbsentPodcast == MkPodcast("absent", AbsentStr, AbsentStr, AbsentStr)

MkGeneral(state, podcast, name, host, site) ==
    [p |-> state, podcast |-> podcast, podcast_name |-> name, host_name |-> host,
     website |-> site]
AbsentGeneral == MkGeneral("absent", AbsentPodcast, AbsentStr, AbsentStr, AbsentStr)

MkEpisode(state, duration, style, audience) ==
    [p |-> state, duration_minutes |-> duration, host_style |-> style,
     target_audience |-> audience]
AbsentEpisode == MkEpisode("absent", AbsentNum, AbsentStr, AbsentStr)

AbsentResearch ==
    [p |-> "absent", keywords |-> AbsentArr, all_keywords |-> AbsentArr,
     niche |-> AbsentStr, description |-> AbsentStr, days_back |-> AbsentNum,
     use_random_keywords |-> AbsentBool, random_keyword_count |-> AbsentNum,
     twitter_enabled |-> AbsentBool, twitter_max_tweets |-> AbsentNum,
     tiktok_enabled |-> AbsentBool, tiktok_max_videos |-> AbsentNum,
     tiktok_regions |-> AbsentArr,
     threads_enabled |-> AbsentBool, threads_max_posts |-> AbsentNum,
     reddit_enabled |-> AbsentBool, reddit_max_posts |-> AbsentNum]

MkConfig(research, episode, general) ==
    [p |-> "val", research |-> research, episode |-> episode, general |-> general]
NullConfig ==
    [p |-> "null", research |-> AbsentResearch, episode |-> AbsentEpisode,
     general |-> AbsentGeneral]

\* useState initial values of the form.
DefaultForm ==
    [keywords |-> <<>>, niche |-> "", description |-> "", daysBack |-> NumVal(7),
     useRandomKeywords |-> TRUE, randomKeywordCount |-> NumVal(10),
     twitterEnabled |-> TRUE, twitterMaxTweets |-> NumVal(5),
     tiktokEnabled |-> TRUE, tiktokMaxVideos |-> NumVal(5),
     tiktokRegions |-> <<"u", "s", ",", " ", "n", "g">>,
     threadsEnabled |-> TRUE, threadsMaxPosts |-> NumVal(5),
     redditEnabled |-> TRUE, redditMaxPosts |-> NumVal(5),
     episodeDuration |-> NumVal(60), hostStyle |-> "conversational",
     targetAudience |-> "Gen Z",
     podcastName |-> "", hostName |-> "", website |-> ""]

\* The setters of loadConfig on the parsed body d.
populate(d) ==
    LET research == d.research
        episode == d.episode
        podcast == IF d.general.p = "val" THEN d.general.podcast ELSE AbsentPodcast
    IN [keywords |-> OrText(OptJoin(OptArr(research, "all_keywords")),
                            OrText(OptJoin(OptArr(research, "keywords")), Text(<<>>))).v,
        niche |-> OrStr(OptStr(research, "niche"), StrVal("")).v,
        description |-> OrStr(OptStr(research, "description"), StrVal("")).v,
        daysBack |-> OrNum(OptNum(research, "days_back"), NumVal(7)),
        useRandomKeywords |-> NotFalse(OptBool(research, "use_random_keywords")),
        randomKeywordCount |-> OrNum(OptNum(research, "random_keyword_count"), NumVal(10)),
        twitterEnabled |-> NotFalse(OptBool(research, "twitter_enabled")),
        twitterMaxTweets |-> OrNum(OptNum(research, "twitter_max_tweets"), NumVal(5)),
        tiktokEnabled |-> NotFalse(OptBool(research, "tiktok_enabled")),
        tiktokMaxVideos |-> OrNum(OptNum(research, "tiktok_max_videos"), NumVal(5)),
        tiktokRegions |-> OrText(OptJoin(OptArr(research, "tiktok_regions")),
                                 Text(<<"u", "s", ",", " ", "n", "g">>)).v,
        threadsEnabled |-> NotFalse(OptBool(research, "threads_enabled")),
        threadsMaxPosts |-> OrNum(OptNum(research, "threads_max_posts"), NumVal(5)),
        redditEnabled |-> NotFalse(OptBool(research, "reddit_enabled")),
        redditMaxPosts |-> OrNum(OptNum(research, "reddit_max_posts"), NumVal(5)),
        episodeDuration |-> OrNum(OptNum(episode, "duration_minutes"), NumVal(60)),
        hostStyle |-> OrStr(OptStr(episode, "host_style"), StrVal("conversational")).v,
        targetAudience |-> OrStr(OptStr(episode, "target_audience"), StrVal("Gen Z")).v,
        podcastName |-> OrStr(OptStr(podcast, "name"), StrVal("")).v,
        hostName |-> OrStr(OptStr(podcast, "host_name"), StrVal("")).v,
        website |-> OrStr(OptStr(podcast, "website"), StrVal("")).v]

\* JSON.stringify of a number of the form.
jsonNum(n) == IF n.p = "nan" THEN NullNum ELSE n

\* The body of the POST of saveConfig, as the server parses it.
requestBody(f) ==
    MkConfig(
        [p |-> "val", keywords |-> ArrVal(splitList(f.keywords)), all_keywords |-> AbsentArr,
         niche |-> StrVal(f.niche), description |-> StrVal(f.description),
         days_back |-> jsonNum(f.daysBack),
         use_random_keywords |-> BoolVal(f.useRandomKeywords),
         random_keyword_count |-> jsonNum(f.randomKeywordCount),
         twitter_enabled |-> BoolVal(f.twitterEnabled),
         twitter_max_tweets |-> jsonNum(f.twitterMaxTweets),
         tiktok_enabled |-> BoolVal(f.tiktokEnabled),
         tiktok_max_videos |-> jsonNum(f.tiktokMaxVideos),
         tiktok_regions |-> ArrVal(splitList(f.tiktokRegions)),
         threads_enabled |-> BoolVal(f.threadsEnabled),
         threads_max_posts |-> jsonNum(f.threadsMaxPosts),
         reddit_enabled |-> BoolVal(f.redditEnabled),
         reddit_max_posts |-> jsonNum(f.redditMaxPosts)],
        MkEpisode("val", jsonNum(f.episodeDuration), StrVal(f.hostStyle),
                  StrVal(f.targetAudience)),
        MkGeneral("val", AbsentPodcast, StrVal(f.podcastName), StrVal(f.hostName),
                  StrVal(f.website)))

\* Configurations the backend may hold.
Us == <<"u", "s">>
WordA == <<"a">>
WordB == <<"b">>
KeywordCases == {AbsentArr, ArrVal(<<>>), ArrVal(<<WordA>>), ArrVal(<<WordA, WordB>>)}

\* Written by this page before: the shape of the POST body.
SavedResearch(kw, days, random) ==
    [AbsentResearch EXCEPT
        !.p = "val", !.keywords = kw, !.niche = StrVal("tech"),
        !.description = StrVal("weekly show"), !.days_back = days,
        !.use_random_keywords = random, !.random_keyword_count = NumVal(3),
        !.twitter_enabled = BoolVal(TRUE), !.twitter_max_tweets = NumVal(9),
        !.tiktok_enabled = BoolVal(FALSE), !.tiktok_max_videos = NumVal(9),
        !.tiktok_regions = ArrVal(<<Us>>),
        !.threads_enabled = BoolVal(TRUE), !.threads_max_posts = NumVal(9),
        !.reddit_enabled = BoolVal(TRUE), !.reddit_max_posts = NumVal(9)]

ResearchCases ==
    {AbsentResearch}
    \cup {[SavedResearch(kw, NumVal(14), BoolVal(TRUE)) EXCEPT !.all_keywords = all] :
            kw \in KeywordCases, all \in KeywordCases}
    \cup {SavedResearch(ArrVal(<<WordA>>), days, random) :
            days \in {AbsentNum, NullNum, NumVal(0), NumVal(14)},
            random \in {AbsentBool, NullBool, BoolVal(FALSE), BoolVal(TRUE)}}

EpisodeCases ==
    {AbsentEpisode,
     MkEpisode("val", NumVal(30), StrVal("solo"), StrVal("founders")),
     MkEpisode("val", NumVal(0), StrVal(""), NullStr)}

GeneralCases ==
    {AbsentGeneral,
     MkGeneral("val", AbsentPodcast, AbsentStr, AbsentStr, AbsentStr),
     MkGeneral("val", MkPodcast("val", StrVal("Esosa"), StrVal("Afia"), StrVal("esosa.fm")),
               AbsentStr, AbsentStr, AbsentStr),
     MkGeneral("val", AbsentPodcast, StrVal("Esosa"), StrVal("Afia"), StrVal("esosa.fm"))}

SavedEpisode == MkEpisode("val", NumVal(30), StrVal("solo"), StrVal("founders"))
SavedGeneral == MkGeneral("val", AbsentPodcast, StrVal("Esosa"), StrVal("Afia"), StrVal("esosa.fm"))

Configs ==
    {MkConfig(r, SavedEpisode, SavedGeneral) : r \in ResearchCases}
    \cup {MkConfig(SavedResearch(ArrVal(<<WordA>>), NumVal(14), BoolVal(TRUE)), e, g) :
            e \in EpisodeCases, g \in GeneralCases}
    \cup {NullConfig}

\* Answers to GET /api/config: a rejected fetch, an unparsable body, a body.
ConfigFailures == {"Failed to fetch", "Unexpected token"}
ConfigResponses ==
    {[failure |-> f, body |-> NullConfig] : f \in ConfigFailures}
    \cup {[failure |-> "", body |-> c] : c \in Configs}

\* data.research on a null body raises before any setter of the form runs.
loadThrows(resp) == resp.failure # "" \/ resp.body.p # "val"

\* Answers to POST /api/config: a rejected fetch, or a status.
SaveResponses == {[delivered |-> FALSE, ok |-> FALSE],
                  [delivered |-> TRUE, ok |-> FALSE],
                  [delivered |-> TRUE, ok |-> TRUE]}

NoSave == [id |-> 0, resp |-> [delivered |-> FALSE, ok |-> FALSE]]

NoMessage == [type |-> "", text |-> ""]
LoadFailed == [type |-> "error", text |-> "Failed to load settings. Is the backend running?"]
SaveFailed == [type |-> "error", text |-> "Failed to save settings."]
SaveSucceeded == [type |-> "success", text |-> "Settings saved successfully!"]

\* Values typed or ticked in each field of the form.
TextFields == {"niche", "description", "hostStyle", "targetAudience",
               "podcastName", "hostName", "website"}
ListFields == {"keywords", "tiktokRegions"}
NumberFields == {"daysBack", "randomKeywordCount", "twitterMaxTweets", "tiktokMaxVideos",
                 "threadsMaxPosts", "redditMaxPosts", "episodeDuration"}
CheckFields == {"useRandomKeywords", "twitterEnabled", "tiktokEnabled", "threadsEnabled",
                "redditEnabled"}
FormFields == TextFields \cup ListFields \cup NumberFields \cup CheckFields

FieldValues(field) ==
    IF field \in TextFields THEN {"news"}
    ELSE IF field \in ListFields THEN {<<"a", ",", " ", ",", "b">>}
    ELSE IF field \in NumberFields THEN {NumVal(2), NaN}
    ELSE BOOLEAN

\* ------------------------------------------------------------------------
\* The login guard: passwords and their hashes
\* ------------------------------------------------------------------------
PasswordChars == {"e", "E", "x"}
Passwords == UNION {[1..n -> PasswordChars] : n \in 0..MaxPasswordLen}

lowerChar(c) == IF c = "E" THEN "e" ELSE c

\* String.prototype.toLowerCase()
toLowerCase(s) == [i \in 1..Len(s) |-> lowerChar(s[i])]

\* The hex digest of SHA-256, taken as free of collisions: the digest of a
\* text is the text under a tag.
sha256(text) == [sha256 |-> text]

\* hashString: the digest of the password in lower case.
hashString(string) == sha256(toLowerCase(string))

\* VITE_ACCESS_HASH of the build: the digest of the secret word, or undefined.
NoHash == [p |-> "absent", v |-> sha256(<<>>)]
HashVal(h) == [p |-> "val", v |-> h]
TargetHashes == {NoHash, HashVal(sha256(<<"e", "x">>))}

\* inputHash === TARGET_HASH
hashMatches(inputHash, target) == target.p = "val" /\ inputHash = target.v

\* localStorage item 'esosa_authenticated'.
NoFlag == [p |-> "null", v |-> ""]
Flag(v) == [p |-> "val", v |-> v]
FlagsAtStart == {NoFlag, Flag("true"), Flag("false")}

\* localStorage.getItem('esosa_authenticated') === 'true'
storedAuthenticated(flag) == flag = Flag("true")

\* The effect on [isAuthenticated].
saveAuthenticated(flag, authenticated) == IF authenticated THEN Flag("true") ELSE flag

\* ------------------------------------------------------------------------
\* State
\* ------------------------------------------------------------------------
VARIABLES
    data,            \* argument of the extractor call under test
    result,          \* its outcome
    badges,          \* the relevance badges of the cards rendered for it
    isLoading, topics, error, selectedTopic, episodeData, episodeLoading,
    podcastTopics,   \* localStorage item 'podcastTopics'
    researchCalls,   \* ids of the research requests in flight
    episodeCalls,    \* episode requests in flight: [id, topic]
    issued,          \* number of requests issued so far
    lastResearch,    \* last research response delivered, and who started it
    clicks,          \* number of Generate/Refresh/Try again/Draft Episode clicks
    reloadedAt,      \* id of the last research delivered before the last reload
    modalEpisodeData, \* episodeData prop of the episode modal under test
    apiUrl,          \* origin of the API in this build
    pdfLink,         \* href of the Download PDF link once rendered
    messages, input, chatIsLoading,   \* state of ChatModal
    chatCalls,       \* chat requests in flight: [id, message]
    chatIssued,      \* number of chat requests issued so far
    lastChat,        \* last chat response delivered, and who started it
    config, loading, saving, message,   \* state of SettingsPage
    form,            \* the form fields of SettingsPage, by state variable
    loadCalls,       \* GET /api/config requests in flight
    saveCalls,       \* POST /api/config requests in flight
    posted,          \* body of the last POST /api/config
    saves,           \* number of clicks on Save Settings
    edits,           \* number of changes made in the form
    lastSave,        \* last answer to POST /api/config delivered
    isAuthenticated, \* state of App
    authFlag,        \* localStorage item 'esosa_authenticated'
    targetHash,      \* TARGET_HASH of the build
    loginMounted,    \* the LoginModal is rendered
    password, loginError, isShaking, isVerifying,   \* state of LoginModal
    hashCalls,       \* digests being computed: [id, password]
    shakeTimers,     \* pending setTimeout callbacks of the shake
    submits,         \* number of submissions accepted so far
    lastHash         \* last digest compared, and for which submission

vars == <<data, result, badges, isLoading, topics, error, selectedTopic, episodeData,
          episodeLoading, podcastTopics, researchCalls, episodeCalls, issued,
          lastResearch, clicks, reloadedAt, modalEpisodeData, apiUrl, pdfLink,
          messages, input, chatIsLoading, chatCalls, chatIssued, lastChat,
          config, loading, saving, message, form, loadCalls, saveCalls, posted,
          saves, edits, lastSave,
          isAuthenticated, authFlag, targetHash, loginMounted, password, loginError,
          isShaking, isVerifying, hashCalls, shakeTimers, submits, lastHash>>

loginVars == <<isAuthenticated, authFlag, targetHash, loginMounted, password,
               loginError, isShaking, isVerifying, hashCalls, shakeTimers, submits,
               lastHash>>

settingsVars == <<config, loading, saving, message, form, loadCalls, saveCalls,
                  posted, saves, edits, lastSave>>

modalVars == <<modalEpisodeData, apiUrl, pdfLink>>

chatVars == <<messages, input, chatIsLoading, chatCalls, chatIssued, lastChat>>

extractVars == <<data, result, badges>>

pageVars == <<isLoading, topics, error, selectedTopic, episodeData,
              episodeLoading, podcastTopics, researchCalls, episodeCalls, issued,
              lastResearch, clicks, reloadedAt>>

Pending == [state |-> "pending", topics |-> <<>>]
NoCards == [rendered |-> FALSE, percent |-> <<>>]
NoResearch == [id |-> 0, resp |-> NetworkFailure]
NotRendered == [state |-> "pending", url |-> NoUrl]
NoChat == [id |-> 0, resp |-> ChatNetworkFailure]

\* ChatModal as mounted.
MountChat ==
    /\ messages = <<AiMessage(Greeting)>>
    /\ input = <<>>
    /\ chatIsLoading = FALSE
    /\ chatCalls = {}
    /\ chatIssued = 0
    /\ lastChat = NoChat

\* SettingsPage as mounted: the effect has called loadConfig.
MountSettings ==
    /\ config = NullConfig
    /\ loading = TRUE
    /\ saving = FALSE
    /\ message = NoMessage
    /\ form = DefaultForm
    /\ loadCalls = {1}
    /\ saveCalls = {}
    /\ posted = NullConfig
    /\ saves = 0
    /\ edits = 0
    /\ lastSave = NoSave

NoDigest == [id |-> 0, inputHash |-> sha256(<<>>)]

\* App and its LoginModal as mounted over a given localStorage flag.
MountApp(flag) ==
    /\ isAuthenticated = storedAuthenticated(flag)
    /\ authFlag = saveAuthenticated(flag, storedAuthenticated(flag))
    /\ loginMounted = ~storedAuthenticated(flag)
    /\ password = <<>>
    /\ loginError = FALSE
    /\ isShaking = FALSE
    /\ isVerifying = FALSE
    /\ hashCalls = {}
    /\ shakeTimers = 0
    /\ submits = 0
    /\ lastHash = NoDigest

\* The pages behind the guard: a session logged in before.
LoggedIn ==
    /\ targetHash = NoHash
    /\ MountApp(Flag("true"))

\* No episode modal under test.
NoModal ==
    /\ modalEpisodeData = NullEpisodeData
    /\ apiUrl = "VITE_API_URL"
    /\ pdfLink = NotRendered

\* HomePage as mounted over a given localStorage item.
Mount(saved) ==
    /\ isLoading = FALSE
    /\ topics = loadTopics(saved)
    /\ error = NoError
    /\ selectedTopic = NoTopic
    /\ episodeData = NoEpisode
    /\ episodeLoading = FALSE
    /\ podcastTopics = saveTopics(saved, loadTopics(saved))
    /\ researchCalls = {}
    /\ episodeCalls = {}
    /\ issued = 0
    /\ lastResearch = NoResearch
    /\ clicks = 0
    /\ reloadedAt = 0

\* ------------------------------------------------------------------------
\* The extractor on its own
\* ------------------------------------------------------------------------
InitExtract ==
    /\ \/ TopicFocus(data)
       \/ TwitterFocus(data)
       \/ OthersFocus(data)
       \/ data = NullData
    /\ result = Pending
    /\ badges = NoCards
    /\ Mount(NoItem)
    /\ NoModal
    /\ MountChat
    /\ MountSettings
    /\ LoggedIn

\* One call of extractTopicsWithSources(data).
Extract ==
    /\ result.state = "pending"
    /\ LET r == extractTopicsWithSources(data)
       IN result' = [state |-> IF r.threw THEN "threw" ELSE "returned",
                     topics |-> r.topics]
    /\ UNCHANGED <<loginVars, data, badges, pageVars, modalVars, chatVars, settingsVars>>

\* The topic cards of the topics returned, one badge each.
RenderCards ==
    /\ result.state = "returned"
    /\ ~badges.rendered
    /\ badges' = [rendered |-> TRUE,
                  percent |-> [i \in 1..Len(result.topics) |-> cardPercent(result.topics[i])]]
    /\ UNCHANGED <<loginVars, data, result, pageVars, modalVars, chatVars, settingsVars>>

NextExtract == Extract \/ RenderCards

SpecExtract == InitExtract /\ [][NextExtract]_vars

\* ------------------------------------------------------------------------
\* The home page
\* ------------------------------------------------------------------------
SavedItems == {NoItem, Item(JSONstringify(extractTopicsWithSources(TwoTopics).topics))}

Init ==
    /\ data = NullData
    /\ result = Pending
    /\ badges = NoCards
    /\ \E saved \in SavedItems : Mount(saved)
    /\ NoModal
    /\ MountChat
    /\ MountSettings
    /\ LoggedIn

\* The episode modal, rendered while selectedTopic is set, is a fixed overlay
\* over the whole viewport: the controls of the page lie beneath it.
pageReachable == ~TruthyStr(selectedTopic)

canGenerateWhileLoading ==
    \/ Len(topics) = 0
    \/ TruthyStr(error)
    \/ Len(topics) > 0 /\ ~isLoading

\* A control bound to generateIdeas is rendered and enabled: the hero button,
\* the "Try again" link of the error panel, or the Refresh button.
canGenerate ==
    \/ Len(topics) = 0 /\ ~isLoading
    \/ TruthyStr(error)
    \/ Len(topics) > 0 /\ ~isLoading

generateIdeasKeepingTopics ==
    /\ pageReachable
    /\ canGenerate
    /\ issued < MaxRequests
    /\ isLoading' = TRUE
    /\ error' = NoError
    /\ topics' = topics
    /\ podcastTopics' = saveTopics(podcastTopics, topics')
    /\ issued' = issued + 1
    /\ researchCalls' = researchCalls \cup {issued'}
    /\ clicks' = clicks + 1
    /\ UNCHANGED <<loginVars, extractVars, modalVars, chatVars, settingsVars, selectedTopic, episodeData, episodeLoading,
                   episodeCalls, lastResearch, reloadedAt>>

generateIdeas ==
    /\ pageReachable
    /\ canGenerate
    /\ issued < MaxRequests
    /\ isLoading' = TRUE
    /\ error' = NoError
    /\ topics' = <<>>
    /\ podcastTopics' = saveTopics(podcastTopics, topics')
    /\ issued' = issued + 1
    /\ researchCalls' = researchCalls \cup {issued'}
    /\ clicks' = clicks + 1
    /\ UNCHANGED <<loginVars, extractVars, modalVars, chatVars, settingsVars, selectedTopic, episodeData, episodeLoading,
                   episodeCalls, lastResearch, reloadedAt>>

researchSettledMerging(id, resp) ==
    /\ id \in researchCalls
    /\ researchCalls' = researchCalls \ {id}
    /\ lastResearch' = [id |-> id, resp |-> resp]
    /\ IF researchRejects(resp)
       THEN /\ error' = errorText(rejectionMessage(resp))
            /\ isLoading' = FALSE
            /\ UNCHANGED <<topics, podcastTopics>>
       ELSE /\ topics' = loadTopics(podcastTopics) \o extractTopicsWithSources(resp.body).topics
            /\ isLoading' = FALSE
            /\ podcastTopics' = saveTopics(podcastTopics, topics')
            /\ UNCHANGED error
    /\ UNCHANGED <<loginVars, extractVars, modalVars, chatVars, settingsVars, selectedTopic, episodeData, episodeLoading,
                   episodeCalls, issued, clicks, reloadedAt>>

researchSettledAutoRetry(id, resp) ==
    /\ id \in researchCalls
    /\ lastResearch' = [id |-> id, resp |-> resp]
    /\ IF researchRejects(resp) /\ issued < MaxRequests
       THEN /\ researchCalls' = (researchCalls \ {id}) \cup {issued + 1}
            /\ issued' = issued + 1
            /\ UNCHANGED <<topics, podcastTopics, error, isLoading>>
       ELSE /\ researchCalls' = researchCalls \ {id}
            /\ UNCHANGED issued
            /\ IF researchRejects(resp)
               THEN /\ error' = errorText(rejectionMessage(resp))
                    /\ isLoading' = FALSE
                    /\ UNCHANGED <<topics, podcastTopics>>
               ELSE /\ topics' = extractTopicsWithSources(resp.body).topics
                    /\ isLoading' = FALSE
                    /\ podcastTopics' = saveTopics(podcastTopics, topics')
                    /\ UNCHANGED error
    /\ UNCHANGED <<loginVars, extractVars, modalVars, chatVars, settingsVars, selectedTopic, episodeData, episodeLoading,
                   episodeCalls, clicks, reloadedAt>>

\* The continuations of the research request id, run on the response resp.
researchSettled(id, resp) ==
    /\ id \in researchCalls
    /\ researchCalls' = researchCalls \ {id}
    /\ lastResearch' = [id |-> id, resp |-> resp]
    /\ IF researchRejects(resp)
       THEN /\ error' = errorText(rejectionMessage(resp))
            /\ isLoading' = FALSE
            /\ UNCHANGED <<topics, podcastTopics>>
       ELSE /\ topics' = extractTopicsWithSources(resp.body).topics
            /\ isLoading' = FALSE
            /\ podcastTopics' = saveTopics(podcastTopics, topics')
            /\ UNCHANGED error
    /\ UNCHANGED <<loginVars, extractVars, modalVars, chatVars, settingsVars, selectedTopic, episodeData, episodeLoading,
                   episodeCalls, issued, clicks, reloadedAt>>

handleDraftEpisode(i) ==
    /\ pageReachable
    /\ i \in 1..Len(topics)
    /\ issued < MaxRequests
    /\ selectedTopic' = StrVal(topics[i].title)
    /\ episodeLoading' = TRUE
    /\ episodeData' = NoEpisode
    /\ issued' = issued + 1
    /\ episodeCalls' = episodeCalls \cup {[id |-> issued', topic |-> topics[i].title]}
    /\ clicks' = clicks + 1
    /\ UNCHANGED <<loginVars, extractVars, modalVars, chatVars, settingsVars, isLoading, topics, error, podcastTopics,
                   researchCalls, lastResearch, reloadedAt>>

episodeSettledReopening(call, succeeds) ==
    /\ call \in episodeCalls
    /\ episodeCalls' = episodeCalls \ {call}
    /\ episodeLoading' = FALSE
    /\ episodeData' = IF succeeds THEN EpisodeOutline(call.topic)
                      ELSE EpisodeError("Failed to fetch")
    /\ selectedTopic' = StrVal(call.topic)
    /\ UNCHANGED <<loginVars, extractVars, modalVars, chatVars, settingsVars, isLoading, topics, error,
                   podcastTopics, researchCalls, issued, lastResearch, clicks,
                   reloadedAt>>

\* The continuations of an episode request: the outline of the requested
\* topic, or the rejection of fetch or of res.json().
episodeSettled(call, succeeds) ==
    /\ call \in episodeCalls
    /\ episodeCalls' = episodeCalls \ {call}
    /\ episodeLoading' = FALSE
    /\ episodeData' = IF succeeds THEN EpisodeOutline(call.topic)
                      ELSE EpisodeError("Failed to fetch")
    /\ UNCHANGED <<loginVars, extractVars, modalVars, chatVars, settingsVars, isLoading, topics, error, selectedTopic,
                   podcastTopics, researchCalls, issued, lastResearch, clicks,
                   reloadedAt>>

closeEpisodeModal ==
    /\ TruthyStr(selectedTopic)
    /\ selectedTopic' = NoTopic
    /\ episodeData' = NoEpisode
    /\ UNCHANGED <<loginVars, extractVars, modalVars, chatVars, settingsVars, isLoading, topics, error, episodeLoading,
                   podcastTopics, researchCalls, episodeCalls, issued, lastResearch,
                   clicks, reloadedAt>>

\* A reload of the page: the component state is built again from localStorage
\* (useState initialisers, then the effect on [topics]); the requests of the
\* unloaded page are gone with their continuations.
Reload ==
    /\ isLoading' = FALSE
    /\ topics' = loadTopics(podcastTopics)
    /\ error' = NoError
    /\ selectedTopic' = NoTopic
    /\ episodeData' = NoEpisode
    /\ episodeLoading' = FALSE
    /\ podcastTopics' = saveTopics(podcastTopics, topics')
    /\ researchCalls' = {}
    /\ episodeCalls' = {}
    /\ reloadedAt' = lastResearch.id
    /\ UNCHANGED <<loginVars, extractVars, modalVars, chatVars, settingsVars, issued, lastResearch, clicks>>

Next ==
    \/ generateIdeas
    \/ \E id \in researchCalls, resp \in Responses : researchSettled(id, resp)
    \/ \E i \in 1..Len(topics) : handleDraftEpisode(i)
    \/ \E call \in episodeCalls, succeeds \in BOOLEAN : episodeSettled(call, succeeds)
    \/ closeEpisodeModal
    \/ Reload

Spec == Init /\ [][Next]_vars

\* ------------------------------------------------------------------------
\* The episode modal on its own
\* ------------------------------------------------------------------------
InitPdf ==
    /\ data = NullData
    /\ result = Pending
    /\ badges = NoCards
    /\ Mount(NoItem)
    /\ modalEpisodeData \in EpisodeDatas
    /\ apiUrl \in ApiUrls
    /\ pdfLink = NotRendered
    /\ MountChat
    /\ MountSettings
    /\ LoggedIn

\* One render of the modal footer: {getPdfUrl() && <a href={getPdfUrl()} ...>}.
RenderDownload ==
    /\ pdfLink.state = "pending"
    /\ pdfLink' = [state |-> "rendered", url |-> getPdfUrl(modalEpisodeData, apiUrl)]
    /\ UNCHANGED <<loginVars, extractVars, pageVars, chatVars, settingsVars, modalEpisodeData,
                   apiUrl>>

NextPdf == RenderDownload

SpecPdf == InitPdf /\ [][NextPdf]_vars

\* ------------------------------------------------------------------------
\* The chat modal
\* ------------------------------------------------------------------------
InitChat ==
    /\ data = NullData
    /\ result = Pending
    /\ badges = NoCards
    /\ Mount(NoItem)
    /\ NoModal
    /\ MountChat
    /\ MountSettings
    /\ LoggedIn

\* onChange of the text field.
setInput(value) ==
    /\ input' = value
    /\ UNCHANGED <<loginVars, extractVars, pageVars, modalVars, settingsVars, messages,
                   chatIsLoading, chatCalls, chatIssued, lastChat>>

sendMessageWhileLoading ==
    /\ chatIssued < MaxSends
    /\ IF trim(input) = <<>>
       THEN UNCHANGED chatVars
       ELSE /\ messages' = Append(messages, UserMessage(input))
            /\ input' = <<>>
            /\ chatIsLoading' = TRUE
            /\ chatIssued' = chatIssued + 1
            /\ chatCalls' = chatCalls \cup {[id |-> chatIssued', message |-> input]}
            /\ UNCHANGED lastChat
    /\ UNCHANGED <<loginVars, extractVars, pageVars, modalVars, settingsVars>>

\* A submit of the form, by the button or by the Enter key.
sendMessage ==
    /\ chatIssued < MaxSends
    /\ IF trim(input) = <<>> \/ chatIsLoading
       THEN UNCHANGED chatVars
       ELSE /\ messages' = Append(messages, UserMessage(input))
            /\ input' = <<>>
            /\ chatIsLoading' = TRUE
            /\ chatIssued' = chatIssued + 1
            /\ chatCalls' = chatCalls \cup {[id |-> chatIssued', message |-> input]}
            /\ UNCHANGED lastChat
    /\ UNCHANGED <<loginVars, extractVars, pageVars, modalVars, settingsVars>>

\* The rest of sendMessage after the await, run on the response resp:
\* the try block, the catch block, and finally.
chatSettled(call, resp) ==
    /\ call \in chatCalls
    /\ chatCalls' = chatCalls \ {call}
    /\ lastChat' = [id |-> call.id, resp |-> resp]
    /\ messages' = Append(messages,
                          AiMessage(IF chatThrows(resp) THEN ConnectionError
                                    ELSE messageText(resp)))
    /\ chatIsLoading' = FALSE
    /\ UNCHANGED <<loginVars, extractVars, pageVars, modalVars, settingsVars, input, chatIssued>>

NextChat ==
    \/ \E value \in Inputs : setInput(value)
    \/ sendMessage
    \/ \E call \in chatCalls, resp \in ChatResponses : chatSettled(call, resp)

SpecChat == InitChat /\ [][NextChat]_vars

\* ------------------------------------------------------------------------
\* The settings page
\* ------------------------------------------------------------------------
InitSettings ==
    /\ data = NullData
    /\ result = Pending
    /\ badges = NoCards
    /\ Mount(NoItem)
    /\ NoModal
    /\ MountChat
    /\ MountSettings
    /\ LoggedIn

\* The rest of loadConfig after the await, run on the answer resp.
loadSettled(call, resp) ==
    /\ call \in loadCalls
    /\ loadCalls' = loadCalls \ {call}
    /\ IF loadThrows(resp)
       THEN /\ message' = LoadFailed
            /\ UNCHANGED <<config, form>>
       ELSE /\ config' = resp.body
            /\ form' = populate(resp.body)
            /\ UNCHANGED message
    /\ loading' = FALSE
    /\ UNCHANGED <<loginVars, extractVars, pageVars, modalVars, chatVars, saving, saveCalls,
                   posted, saves, edits, lastSave>>

\* onChange of one field of the form, rendered once loading is over.
setField(field, value) ==
    /\ ~loading
    /\ edits < MaxEdits
    /\ form' = [form EXCEPT ![field] = value]
    /\ edits' = edits + 1
    /\ UNCHANGED <<loginVars, extractVars, pageVars, modalVars, chatVars, config, loading,
                   saving, message, loadCalls, saveCalls, posted, saves,
                   lastSave>>

\* A click on Save Settings, disabled while saving.
saveConfig ==
    /\ ~loading
    /\ ~saving
    /\ saves < MaxSaves
    /\ saving' = TRUE
    /\ message' = NoMessage
    /\ posted' = requestBody(form)
    /\ saves' = saves + 1
    /\ saveCalls' = saveCalls \cup {saves'}
    /\ UNCHANGED <<loginVars, extractVars, pageVars, modalVars, chatVars, config, loading,
                   form, loadCalls, edits, lastSave>>

saveSettledIgnoringStatus(call, resp) ==
    /\ call \in saveCalls
    /\ saveCalls' = saveCalls \ {call}
    /\ lastSave' = [id |-> call, resp |-> resp]
    /\ message' = IF resp.delivered THEN SaveSucceeded ELSE SaveFailed
    /\ saving' = FALSE
    /\ UNCHANGED <<loginVars, extractVars, pageVars, modalVars, chatVars, config, loading,
                   form, loadCalls, posted, saves, edits>>

\* The rest of saveConfig after the await, run on the answer resp.
saveSettled(call, resp) ==
    /\ call \in saveCalls
    /\ saveCalls' = saveCalls \ {call}
    /\ lastSave' = [id |-> call, resp |-> resp]
    /\ message' = IF resp.delivered /\ resp.ok THEN SaveSucceeded ELSE SaveFailed
    /\ saving' = FALSE
    /\ UNCHANGED <<loginVars, extractVars, pageVars, modalVars, chatVars, config, loading,
                   form, loadCalls, posted, saves, edits>>

NextSettings ==
    \/ \E call \in loadCalls, resp \in ConfigResponses : loadSettled(call, resp)
    \/ \E field \in FormFields : \E value \in FieldValues(field) : setField(field, value)
    \/ saveConfig
    \/ \E call \in saveCalls, resp \in SaveResponses : saveSettled(call, resp)

SpecSettings == InitSettings /\ [][NextSettings]_vars

\* ------------------------------------------------------------------------
\* The login guard
\* ------------------------------------------------------------------------
InitLogin ==
    /\ data = NullData
    /\ result = Pending
    /\ badges = NoCards
    /\ Mount(NoItem)
    /\ NoModal
    /\ MountChat
    /\ MountSettings
    /\ targetHash \in TargetHashes
    /\ \E flag \in FlagsAtStart : MountApp(flag)

otherVars == <<extractVars, pageVars, modalVars, chatVars, settingsVars>>

\* onChange of the password field.
setPassword(value) ==
    /\ loginMounted
    /\ password' = value
    /\ loginError' = FALSE
    /\ UNCHANGED <<otherVars, isAuthenticated, authFlag, targetHash, loginMounted,
                   isShaking, isVerifying, hashCalls, shakeTimers, submits, lastHash>>

\* A submit of the form, up to the await of the digest.
handleSubmit ==
    /\ loginMounted
    /\ submits < MaxSubmits
    /\ IF isVerifying
       THEN UNCHANGED <<isVerifying, hashCalls, submits>>
       ELSE /\ isVerifying' = TRUE
            /\ submits' = submits + 1
            /\ hashCalls' = hashCalls \cup {[id |-> submits', password |-> password]}
    /\ UNCHANGED <<otherVars, isAuthenticated, authFlag, targetHash, loginMounted,
                   password, loginError, isShaking, shakeTimers, lastHash>>

hashSettledAcceptingAll(call) ==
    /\ call \in hashCalls
    /\ hashCalls' = hashCalls \ {call}
    /\ lastHash' = [id |-> call.id, inputHash |-> hashString(call.password)]
    /\ isAuthenticated' = TRUE
    /\ authFlag' = saveAuthenticated(authFlag, isAuthenticated')
    /\ loginMounted' = FALSE
    /\ UNCHANGED <<password, loginError, isShaking, isVerifying, shakeTimers>>
    /\ UNCHANGED <<otherVars, targetHash, submits>>

\* The rest of handleSubmit after the await: onLogin and the effect of App,
\* or the refusal.
hashSettled(call) ==
    /\ call \in hashCalls
    /\ hashCalls' = hashCalls \ {call}
    /\ lastHash' = [id |-> call.id, inputHash |-> hashString(call.password)]
    /\ IF hashMatches(hashString(call.password), targetHash)
       THEN /\ isAuthenticated' = TRUE
            /\ authFlag' = saveAuthenticated(authFlag, isAuthenticated')
            /\ loginMounted' = FALSE
            /\ UNCHANGED <<password, loginError, isShaking, isVerifying, shakeTimers>>
       ELSE /\ loginError' = TRUE
            /\ isShaking' = TRUE
            /\ shakeTimers' = shakeTimers + 1
            /\ password' = <<>>
            /\ isVerifying' = FALSE
            /\ UNCHANGED <<isAuthenticated, authFlag, loginMounted>>
    /\ UNCHANGED <<otherVars, targetHash, submits>>

\* setTimeout(() => setIsShaking(false), 500)
shakeEnds ==
    /\ shakeTimers > 0
    /\ shakeTimers' = shakeTimers - 1
    /\ isShaking' = FALSE
    /\ UNCHANGED <<otherVars, isAuthenticated, authFlag, targetHash, loginMounted,
                   password, loginError, isVerifying, hashCalls, submits, lastHash>>

\* A reload of the page: App is built again from localStorage; the digests
\* and timers of the unloaded page are gone.
reloadApp ==
    /\ isAuthenticated' = storedAuthenticated(authFlag)
    /\ authFlag' = saveAuthenticated(authFlag, isAuthenticated')
    /\ loginMounted' = ~isAuthenticated'
    /\ password' = <<>>
    /\ loginError' = FALSE
    /\ isShaking' = FALSE
    /\ isVerifying' = FALSE
    /\ hashCalls' = {}
    /\ shakeTimers' = 0
    /\ UNCHANGED <<otherVars, targetHash, submits, lastHash>>

NextLogin ==
    \/ \E value \in Passwords : setPassword(value)
    \/ handleSubmit
    \/ \E call \in hashCalls : hashSettled(call)
    \/ shakeEnds
    \/ reloadApp

SpecLogin == InitLogin /\ [][NextLogin]_vars

\* ------------------------------------------------------------------------
\* Properties of the extractor (checked under SpecExtract)
\* ------------------------------------------------------------------------
Returned == result.state = "returned"

\* The AI-topic entry behind the output Topic at position i.
EntryOf(i) == aiTopics(data)[i]

\* A field counts as present when it is not absent, null or empty.
PresentStr(x) == x.p = "val" /\ x.v # ""

\* C1: a call that returns on an AI-topic sequence of length N returns exactly
\* min(N, 8) Topic records, in input order, the record at output position i
\* (counted from 0) having id = i.
C1_CountOrderIds ==
    Returned =>
        /\ Len(result.topics) = Min(Len(aiTopics(data)), 8)
        /\ \A i \in 1..Len(result.topics) :
            /\ result.topics[i].id = i - 1
            /\ PresentStr(EntryOf(i).title) => result.topics[i].title = EntryOf(i).title.v

C1_Witness ==
    /\ Returned
    /\ Len(aiTopics(data)) > 8
    /\ Len(result.topics) = 8
    /\ result.topics[8].id = 7
    /\ result.topics[8].title = "t8"

\* C2: every Topic produced has relevanceScore in [0,1], whatever the numeric
\* raw relevance (0, 1, between 1 and 10, 10, just above 10, up to and above
\* 100, negative).
C2_ScoreInUnitInterval ==
    \A i \in 1..Len(result.topics) :
        /\ result.topics[i].relevanceScore >= 0
        /\ result.topics[i].relevanceScore <= Scale

C2_Witness ==
    /\ Returned
    /\ \E i \in 1..Len(result.topics) :
        /\ EntryOf(i).relevance_score = NumVal(Tenths(-30))
        /\ result.topics[i].relevanceScore = 0
    /\ Len(result.topics) > 1

\* The scale inference and the clamp as the specification words them.
SpecScale(raw) ==
    IF raw > 10 * Scale THEN raw \div 100
    ELSE IF raw > Scale /\ raw <= 10 * Scale THEN raw \div 10
    ELSE raw
SpecClamp01(x) == IF x < 0 THEN 0 ELSE IF x > Scale THEN Scale ELSE x

\* C3: the normalized relevance is clamp01(f(raw)), f(raw) = raw/100 if
\* raw > 10, raw/10 if 1 < raw <= 10, raw otherwise; 75 gives 0.75, 8 gives
\* 0.8, 0.6 gives 0.6, 10 gives 1 and 1 gives 1. The raw value of an entry
\* with a non-zero relevance_score is that score.
C3_Normalization ==
    \A i \in 1..Len(result.topics) :
        LET e == EntryOf(i)
            s == result.topics[i].relevanceScore
        IN TruthyNum(e.relevance_score) =>
            /\ s = SpecClamp01(SpecScale(e.relevance_score.v))
            /\ e.relevance_score.v = 75 * Scale => s * 100 = 75 * Scale
            /\ e.relevance_score.v = 8 * Scale => s * 10 = 8 * Scale
            /\ e.relevance_score.v * 10 = 6 * Scale => s * 10 = 6 * Scale
            /\ e.relevance_score.v = 10 * Scale => s = Scale
            /\ e.relevance_score.v = Scale => s = Scale

C3_Witness ==
    /\ Returned
    /\ \E i \in 1..Len(result.topics) :
        /\ EntryOf(i).relevance_score = NumVal(75 * Scale)
        /\ result.topics[i].relevanceScore * 100 = 75 * Scale

\* The raw relevance by field presence: relevance_score when present, else
\* score when present, else 8.
SpecRaw(e) ==
    IF e.relevance_score.p = "val" THEN e.relevance_score.v
    ELSE IF e.score.p = "val" THEN e.score.v
    ELSE 8 * Scale

\* C4: the raw relevance that is normalized is relevance_score whenever that
\* field is present (whatever its value, 0 included), else score whenever
\* present, else the default 8.
C4_RawByPresence ==
    \A i \in 1..Len(result.topics) :
        result.topics[i].relevanceScore = SpecClamp01(SpecScale(SpecRaw(EntryOf(i))))

\* C5: the title of the Topic for the entry at index i is the entry's title
\* if present, else its topic if present, else "Topic " followed by i+1
\* (index 2 gives "Topic 3"); it is never absent (never the empty string).
C5_Title ==
    \A i \in 1..Len(result.topics) :
        LET e == EntryOf(i)
            t == result.topics[i].title
        IN /\ t # ""
           /\ PresentStr(e.title) => t = e.title.v
           /\ ~PresentStr(e.title) /\ PresentStr(e.topic) => t = e.topic.v
           /\ ~PresentStr(e.title) /\ ~PresentStr(e.topic) =>
                t = CASE i = 1 -> "Topic 1" [] i = 2 -> "Topic 2" [] i = 3 -> "Topic 3"
                      [] i = 4 -> "Topic 4" [] i = 5 -> "Topic 5" [] i = 6 -> "Topic 6"
                      [] i = 7 -> "Topic 7" [] i = 8 -> "Topic 8"

C5_Witness ==
    /\ Returned
    /\ Len(result.topics) >= 3
    /\ EntryOf(3).title = AbsentStr
    /\ EntryOf(3).topic = AbsentStr
    /\ result.topics[3].id = 2
    /\ result.topics[3].title = "Topic 3"

\* The posts of s at the 0-based positions from, .., from + width - 1 that exist.
ExistingAt(s, from, width) ==
    [j \in 1..Cardinality({q \in from..(from + width - 1) : q < Len(s)}) |-> s[from + j]]

\* C6: the twitter sources of topic i are exactly the candidate posts at
\* positions 2i and 2i+1 that exist (fewer or none when out of range), and no
\* twitter post position is given to two different topics.
C6_TwitterPairs ==
    /\ \A i \in 1..Len(result.topics) :
        result.topics[i].sources.twitter = ExistingAt(twitterPosts(data), 2 * (i - 1), 2)
    /\ \A i, j \in 1..Len(result.topics) :
        i # j =>
            \A a \in 1..Len(result.topics[i].sources.twitter),
               b \in 1..Len(result.topics[j].sources.twitter) :
                result.topics[i].sources.twitter[a].pos # result.topics[j].sources.twitter[b].pos

C6_Witness ==
    /\ Returned
    /\ Len(result.topics) >= 4
    /\ Len(twitterPosts(data)) = 5
    /\ result.topics[1].sources.twitter = <<twitterPosts(data)[1], twitterPosts(data)[2]>>
    /\ result.topics[2].sources.twitter = <<twitterPosts(data)[3], twitterPosts(data)[4]>>
    /\ result.topics[3].sources.twitter = <<twitterPosts(data)[5]>>
    /\ result.topics[4].sources.twitter = <<>>

\* C7: on tiktok, threads and reddit the sources of topic i are exactly the
\* single candidate post at position i when it exists, else the empty sequence.
C7_SinglePost ==
    \A i \in 1..Len(result.topics) :
        /\ result.topics[i].sources.tiktok =
            (IF i <= Len(tiktokPosts(data)) THEN <<tiktokPosts(data)[i]>> ELSE <<>>)
        /\ result.topics[i].sources.threads =
            (IF i <= Len(threadsPosts(data)) THEN <<threadsPosts(data)[i]>> ELSE <<>>)
        /\ result.topics[i].sources.reddit =
            (IF i <= Len(redditPosts(data)) THEN <<redditPosts(data)[i]>> ELSE <<>>)

C7_Witness ==
    /\ Returned
    /\ Len(result.topics) >= 3
    /\ Len(threadsPosts(data)) = 2
    /\ Len(redditPosts(data)) = 1
    /\ result.topics[2].sources.threads = <<[src |-> "threads.sample_posts", pos |-> 1]>>
    /\ result.topics[3].sources.threads = <<>>
    /\ result.topics[1].sources.reddit = <<[src |-> "reddit.sample_posts", pos |-> 0]>>
    /\ result.topics[2].sources.reddit = <<>>
    /\ result.topics[3].sources.tiktok = <<[src |-> "tiktok.sample_posts", pos |-> 2]>>

\* C8: the extractor is total: on a response object in which any key, any
\* field of a topic entry or a topic entry itself is absent, null or empty,
\* the call returns a Topic sequence and never raises.
C8_Total == data.p = "val" => result.state # "threw"

\* Neither field of the response holds an AI topic.
ZeroTopics ==
    /\ data.p = "val"
    /\ data.ranked_topics \in {AbsentArr, NullArr, ArrVal(<<>>)}
    /\ \/ data.ai_topic_suggestions.p # "val"
       \/ data.ai_topic_suggestions.topics \in {AbsentArr, NullArr, ArrVal(<<>>)}

\* C9: with zero AI topics (topic field absent, null or empty) the call
\* returns the empty sequence without error, whatever the platforms hold.
C9_ZeroTopics ==
    ZeroTopics /\ result.state # "pending" => Returned /\ result.topics = <<>>

C9_Witness ==
    /\ ZeroTopics
    /\ Returned
    /\ data.ai_topic_suggestions = NullSuggestions
    /\ data.ranked_topics = NullArr
    /\ Len(twitterPosts(data)) > 0
    /\ result.topics = <<>>

\* ------------------------------------------------------------------------
\* Properties of the home page (checked under Spec)
\* ------------------------------------------------------------------------
\* A failed research call: the request did not complete, the status is not a
\* success, the body is not JSON, or the body is not an object of topic objects.
FailedResearch(resp) ==
    \/ ~resp.delivered
    \/ ~resp.ok
    \/ ~resp.parses
    \/ resp.body \in {NullData, NullTopic}

\* C10: every failed research call leaves the page in an error state: the
\* error message is set (which renders the "Try again" control) and the
\* loading flag is off.
C10_FailureShowsError ==
    [][lastResearch' # lastResearch /\ FailedResearch(lastResearch'.resp)
        => TruthyStr(error') /\ ~isLoading']_vars

\* The research call whose response was delivered last ran the extractor to
\* its end on a parsed body, and the list it produced.
ExtractionSucceeded ==
    /\ lastResearch.id # 0
    /\ lastResearch.resp.delivered
    /\ lastResearch.resp.parses
    /\ ~extractTopicsWithSources(lastResearch.resp.body).threw
LastExtracted == extractTopicsWithSources(lastResearch.resp.body).topics

C13_CanTriggerWhileOutstanding ==
    researchCalls # {} /\ pageReachable => canGenerate

\* C13 amended: no research call can be triggered while an earlier one is
\* outstanding: while a call is in flight no control bound to generateIdeas
\* is rendered and enabled, so at most one research call is in flight.
C13_OneResearchInFlight ==
    /\ researchCalls # {} => ~canGenerate
    /\ Cardinality(researchCalls) <= 1

C13_Witness ==
    /\ researchCalls = {2}
    /\ lastResearch.id = 1
    /\ isLoading

\* C14: after a successful research call the displayed list is exactly the
\* extractor's result for that response; nothing of the list displayed or
\* persisted before survives.
C14_DisplayedIsExtracted ==
    [][lastResearch' # lastResearch /\ ExtractionSucceeded' => topics' = LastExtracted']_vars

C14_Witness ==
    /\ ExtractionSucceeded
    /\ lastResearch.id = 2
    /\ lastResearch.resp.body = OneTopic
    /\ Len(topics) = 1
    /\ topics[1].title = "A"
    /\ researchCalls = {}

\* C15: no request is issued automatically after a failure: every request is
\* the direct result of one user action, so the requests sent never outnumber
\* the Generate, Refresh, Try again and Draft Episode clicks.
C15_NoAutomaticRequest == issued <= clicks

C15_Witness ==
    /\ lastResearch.id # 0
    /\ ~ExtractionSucceeded
    /\ TruthyStr(error)
    /\ researchCalls = {}
    /\ episodeCalls = {}
    /\ issued = 1
    /\ clicks = 1

\* C16: for both long-running calls the loading flag is on exactly while the
\* request is outstanding.
C16_LoadingWhileOutstanding ==
    /\ isLoading <=> researchCalls # {}
    /\ episodeLoading <=> episodeCalls # {}

\* ------------------------------------------------------------------------
\* Properties of the episode modal (checked under SpecPdf)
\* ------------------------------------------------------------------------
IsSeparator(c) == c \in Separators

\* The suffix of path after its last separator, of either kind.
LastSegment(path) ==
    LET seps == {i \in 1..Len(path) : IsSeparator(path[i])}
        last == IF seps = {} THEN 0 ELSE CHOOSE i \in seps : \A j \in seps : j <= i
    IN SubSeq(path, last + 1, Len(path))

ReportPresent ==
    /\ modalEpisodeData.p = "val"
    /\ modalEpisodeData.pdf_report.p = "val"
    /\ Len(modalEpisodeData.pdf_report.v) > 0

\* The part of the rendered URL after origin and /output/.
UrlFilename == SubSeq(pdfLink.url.v, 2 + Len(OutputDir), Len(pdfLink.url.v))

\* C17: the filename in the download URL is the suffix of pdf_report after its
\* last separator, forward or backward in any mix, and contains no separator;
\* without a pdf_report no URL is produced.
C17_FilenameIsLastSegment ==
    pdfLink.state = "rendered" =>
        IF ReportPresent
        THEN /\ pdfLink.url.p = "val"
             /\ SubSeq(pdfLink.url.v, 1, 1 + Len(OutputDir)) = <<apiUrl>> \o OutputDir
             /\ UrlFilename = LastSegment(modalEpisodeData.pdf_report.v)
             /\ \A i \in 1..Len(UrlFilename) : ~IsSeparator(UrlFilename[i])
        ELSE pdfLink.url = NoUrl

\* A path that mixes both separators, the backslash last.
C17_Witness ==
    /\ pdfLink.state = "rendered"
    /\ modalEpisodeData = MkEpisodeData(Report(<<"a", "/", "\\", "b">>))
    /\ pdfLink.url = [p |-> "val", v |-> <<apiUrl>> \o OutputDir \o <<"b">>]

\* ------------------------------------------------------------------------
\* Properties of the chat modal (checked under SpecChat)
\* ------------------------------------------------------------------------
\* The step delivers a chat response whose body was read.
ChatAnswered ==
    /\ lastChat' # lastChat
    /\ ~chatThrows(lastChat'.resp)

ShownReply == messages[Len(messages)].text

HasResponse(resp) == TruthyText(resp.body.response)
HasDetail(resp) == TruthyText(resp.body.detail)

\* C19 as stated: the reply shown is the response string when the body
\* carries one, else the detail string when it carries one, whatever the
\* HTTP status.
C19_ReplyPassThrough ==
    [][ChatAnswered =>
        /\ HasResponse(lastChat'.resp) => ShownReply' = lastChat'.resp.body.response.v
        /\ ~HasResponse(lastChat'.resp) /\ HasDetail(lastChat'.resp) =>
               ShownReply' = lastChat'.resp.body.detail.v]_vars

\* C19, amended: a non-OK response that carries a detail shows the fixed
\* "Oops!" message; every other response shows its response string when it
\* carries one, else its detail string when it carries one.
C19_ReplyShown ==
    [][ChatAnswered =>
        LET resp == lastChat'.resp
        IN IF ~resp.ok /\ HasDetail(resp)
           THEN ShownReply' = SomethingWentWrong
           ELSE /\ HasResponse(resp) => ShownReply' = resp.body.response.v
                /\ ~HasResponse(resp) /\ HasDetail(resp) => ShownReply' = resp.body.detail.v]_vars

\* A non-OK answer with a detail has been replaced by the fixed message.
C19_Witness ==
    /\ lastChat.id = 1
    /\ ~chatThrows(lastChat.resp)
    /\ ~lastChat.resp.ok
    /\ lastChat.resp.body = MkChatBody(AbsentText, Text(<<"detail">>))
    /\ Len(messages) = 3
    /\ messages[3] = AiMessage(SomethingWentWrong)
    /\ ~chatIsLoading

\* ------------------------------------------------------------------------
\* Properties of the settings page (checked under SpecSettings)
\* ------------------------------------------------------------------------
\* C18: saving a loaded configuration without an edit posts an object with
\* the keys and values of the object that was loaded.
C18_RoundTripVerbatim ==
    [][saves' # saves /\ config.p = "val" /\ edits = 0 => posted' = config]_vars

\* ------------------------------------------------------------------------
\* The candidate posts of each platform (checked under SpecExtract)
\* ------------------------------------------------------------------------
PresentArr(x) == x.p = "val"

\* The field of a platform's results, absent when the results are.
FieldOf(platform, name) == IF platform.p = "val" THEN platform[name] ELSE AbsentArr

\* Primary field when present, else secondary field when present, else empty.
PrimaryThenSecondary(primary, secondary) ==
    IF PresentArr(primary) THEN primary.v
    ELSE IF PresentArr(secondary) THEN secondary.v
    ELSE <<>>

\* The alternate field of the threads results, under whichever name it comes.
ThreadsAlternate(th) ==
    IF \E name \in AlternateNames : PresentArr(FieldOf(th, name))
    THEN FieldOf(th, CHOOSE name \in AlternateNames : PresentArr(FieldOf(th, name)))
    ELSE AbsentArr

\* The sources of every returned topic are cut from the candidates tw, tt,
\* th and rd of the four platforms.
SourcesCutFrom(tw, tt, th, rd) ==
    \A i \in 1..Len(result.topics) :
        /\ result.topics[i].sources.twitter = Slice(tw, 2 * (i - 1), 2 * (i - 1) + 2)
        /\ result.topics[i].sources.tiktok = Slice(tt, i - 1, i)
        /\ result.topics[i].sources.threads = Slice(th, i - 1, i)
        /\ result.topics[i].sources.reddit = Slice(rd, i - 1, i)

\* C20 as stated: each of the four platforms takes its candidates from
\* sample_posts when present, else from its secondary field when present,
\* else has none.
C20_PrimaryThenSecondary ==
    Returned =>
        SourcesCutFrom(
            PrimaryThenSecondary(FieldOf(data.twitter_results, "sample_posts"),
                                 FieldOf(data.twitter_results, "trending_topics")),
            PrimaryThenSecondary(FieldOf(data.tiktok_results, "sample_posts"),
                                 FieldOf(data.tiktok_results, "sample_captions")),
            PrimaryThenSecondary(FieldOf(data.threads_results, "sample_posts"),
                                 ThreadsAlternate(data.threads_results)),
            PrimaryThenSecondary(FieldOf(data.reddit_results, "sample_posts"),
                                 FieldOf(data.reddit_results, "sample_titles")))

\* C20, amended: twitter, tiktok and reddit fall back on trending_topics,
\* sample_captions and sample_titles; threads has sample_posts only.
C20_ThreadsPrimaryOnly ==
    Returned =>
        SourcesCutFrom(
            PrimaryThenSecondary(FieldOf(data.twitter_results, "sample_posts"),
                                 FieldOf(data.twitter_results, "trending_topics")),
            PrimaryThenSecondary(FieldOf(data.tiktok_results, "sample_posts"),
                                 FieldOf(data.tiktok_results, "sample_captions")),
            PrimaryThenSecondary(FieldOf(data.threads_results, "sample_posts"), AbsentArr),
            PrimaryThenSecondary(FieldOf(data.reddit_results, "sample_posts"),
                                 FieldOf(data.reddit_results, "sample_titles")))

\* Reddit falls back on its titles, tiktok keeps its posts, and the posts
\* that the threads results carry under an alternate name are not used.
C20_Witness ==
    /\ Returned
    /\ Len(result.topics) = 2
    /\ data.reddit_results = MkReddit("val", NullArr, ArrVal(PostsOf("reddit.sample_titles", 3)))
    /\ data.tiktok_results = MkTiktok("val", ArrVal(PostsOf("tiktok.sample_posts", MaxPosts)),
                                      ArrVal(PostsOf("tiktok.sample_captions", 3)))
    /\ data.threads_results = MkThreadsWith(AbsentArr, "sample_titles",
                                            ArrVal(PostsOf("threads.alternate", 3)))
    /\ result.topics[2].sources.reddit = <<[src |-> "reddit.sample_titles", pos |-> 1]>>
    /\ result.topics[2].sources.tiktok = <<[src |-> "tiktok.sample_posts", pos |-> 1]>>
    /\ result.topics[2].sources.threads = <<>>

\* ------------------------------------------------------------------------
\* The source of the AI topics (checked under SpecExtract)
\* ------------------------------------------------------------------------
\* ranked_topics when present, else ai_topic_suggestions.topics when present,
\* else the empty sequence.
RankedThenSuggested ==
    IF PresentArr(data.ranked_topics) THEN data.ranked_topics.v
    ELSE IF data.ai_topic_suggestions.p = "val" /\ PresentArr(data.ai_topic_suggestions.topics)
         THEN data.ai_topic_suggestions.topics.v
         ELSE <<>>

\* C21: the topics returned are made from ranked_topics whenever it is
\* present, an empty ranked_topics included, else from
\* ai_topic_suggestions.topics when present, else from the empty sequence.
C21_RankedThenSuggested ==
    Returned =>
        /\ Len(result.topics) = Min(Len(RankedThenSuggested), TopicLimit)
        /\ \A i \in 1..Len(result.topics) :
            PresentStr(RankedThenSuggested[i].title) =>
                result.topics[i].title = RankedThenSuggested[i].title.v

\* An empty ranked_topics hides two suggested topics.
C21_Witness ==
    /\ Returned
    /\ data.ranked_topics = ArrVal(<<>>)
    /\ data.ai_topic_suggestions = Suggestions(ArrVal(BaseSeq(2)))
    /\ result.topics = <<>>

\* ------------------------------------------------------------------------
\* The source windows of tiktok, threads and reddit (checked under SpecExtract)
\* ------------------------------------------------------------------------
SinglePostPlatforms == {"tiktok", "threads", "reddit"}

CandidatesOf(platform) ==
    CASE platform = "tiktok" -> tiktokPosts(data)
      [] platform = "threads" -> threadsPosts(data)
      [] platform = "reddit" -> redditPosts(data)

\* The candidate positions in the sources of the returned topic i.
WindowOf(platform, i) ==
    {j \in 1..Len(CandidatesOf(platform)) :
        \E k \in 1..Len(result.topics[i].sources[platform]) :
            result.topics[i].sources[platform][k] = CandidatesOf(platform)[j]}

\* C22 as stated: with two topics and two candidate posts or more, some
\* candidate position is in the sources of more than one topic.
C22_WindowsOverlap ==
    \A platform \in SinglePostPlatforms :
        Returned /\ Len(result.topics) >= 2 /\ Len(CandidatesOf(platform)) >= 2 =>
            \E i, k \in 1..Len(result.topics) :
                i # k /\ WindowOf(platform, i) \cap WindowOf(platform, k) # {}

\* C22, amended: the windows of different topics are disjoint, and the window
\* of the topic at index i is the position i alone when there is such a post.
C22_WindowsDisjoint ==
    \A platform \in SinglePostPlatforms :
        Returned =>
            /\ \A i, k \in 1..Len(result.topics) :
                i # k => WindowOf(platform, i) \cap WindowOf(platform, k) = {}
            /\ \A i \in 1..Len(result.topics) :
                WindowOf(platform, i) = {i} \cap (1..Len(CandidatesOf(platform)))

\* Eight topics over six tiktok posts: one post each for the first six.
C22_Witness ==
    /\ Returned
    /\ Len(result.topics) = TopicLimit
    /\ Len(tiktokPosts(data)) = MaxPosts
    /\ WindowOf("tiktok", 1) = {1}
    /\ WindowOf("tiktok", 2) = {2}
    /\ WindowOf("tiktok", MaxPosts) = {MaxPosts}
    /\ WindowOf("tiktok", TopicLimit) = {}

\* ------------------------------------------------------------------------
\* The episode modal of the home page (checked under Spec)
\* ------------------------------------------------------------------------
\* C23: the outline held while the modal is open is the answer to the draft
\* request made for the selected topic.
C23_EpisodeDataForSelected ==
    TruthyStr(selectedTopic) /\ episodeData.p = "val" /\ episodeData.error = "" =>
        episodeData.topic = selectedTopic.v

\* C26: the modal opens only by handleDraftEpisode, which issues a request
\* and starts from episodeData = null and episodeLoading = true; without a
\* click a closed modal stays closed, whatever completes.
C26_OnlyDraftOpensModal ==
    [][/\ (selectedTopic' # selectedTopic /\ TruthyStr(selectedTopic')) =>
            (/\ clicks' = clicks + 1
             /\ \E call \in episodeCalls' \ episodeCalls :
                    call.id = issued' /\ StrVal(call.topic) = selectedTopic'
             /\ episodeData' = NoEpisode
             /\ episodeLoading')
       /\ (~TruthyStr(selectedTopic) /\ clicks' = clicks) => ~TruthyStr(selectedTopic')]_vars

\* The request completed after the modal was closed: its data is stored and
\* the modal stays closed.
C26_Witness ==
    /\ ~TruthyStr(selectedTopic)
    /\ episodeData.p = "val"
    /\ ~episodeLoading
    /\ episodeCalls = {}
    /\ clicks = 1

\* ------------------------------------------------------------------------
\* Loading, list and error of the home page (checked under Spec)
\* ------------------------------------------------------------------------
\* C24: while isLoading is true the displayed list is empty and error is
\* null, so the loading indicator excludes the grid and the error panel.
C24_LoadingExcludesListAndError ==
    isLoading => Len(topics) = 0 /\ error = NoError

\* A refresh of a displayed list after a failed call: loading, nothing else.
C24_Witness ==
    /\ isLoading
    /\ researchCalls = {3}
    /\ podcastTopics # NoItem
    /\ Len(topics) = 0
    /\ error = NoError

EmptyList == Item(JSONstringify(<<>>))

C30_SaveAndLoadOutcomes ==
    [][/\ saves' # saves => saving' /\ message' = NoMessage
       /\ lastSave' # lastSave =>
            /\ ~saving'
            /\ message'.type = (IF lastSave'.resp.delivered /\ lastSave'.resp.ok
                                THEN "success" ELSE "error")
       /\ loadCalls' # loadCalls => ~loading']_vars

\* A failed load, then a save answered with a non-OK status and a save
\* answered OK.
C30_Witness ==
    /\ config = NullConfig
    /\ ~loading
    /\ ~saving
    /\ saves = 2
    /\ lastSave = [id |-> 2, resp |-> [delivered |-> TRUE, ok |-> TRUE]]
    /\ message = SaveSucceeded
    /\ saveCalls = {}

\* ------------------------------------------------------------------------
\* The relevance badge of the topic cards (checked under SpecExtract)
\* ------------------------------------------------------------------------
\* round(100 * s) for a score s in units of 1/Scale.
RoundedPercent(s) == (100 * s + Scale \div 2) \div Scale

\* C29: the badge of every card is round(100 * s) of its topic's score s,
\* lies in 0..100, does not decrease with s, and is 0 for a score of 0.
C29_BadgeIsRoundedScore ==
    badges.rendered =>
        /\ \A i \in 1..Len(result.topics) :
            /\ badges.percent[i] = RoundedPercent(result.topics[i].relevanceScore)
            /\ badges.percent[i] \in 0..100
            /\ result.topics[i].relevanceScore = 0 => badges.percent[i] = 0
        /\ \A i, k \in 1..Len(result.topics) :
            result.topics[i].relevanceScore <= result.topics[k].relevanceScore =>
                badges.percent[i] <= badges.percent[k]

\* ------------------------------------------------------------------------
\* Properties of the login guard (checked under SpecLogin)
\* ------------------------------------------------------------------------
\* C28: isAuthenticated turns true only in the step that compares the digest
\* of a submission and finds it equal to the target; once true it stays
\* true, across reloads too; the persisted flag is written as 'true' only;
\* the login modal is rendered exactly while isAuthenticated is false.
C28_AuthenticationMonotone ==
    /\ [](loginMounted <=> ~isAuthenticated)
    /\ [][/\ (~isAuthenticated /\ isAuthenticated') =>
                (/\ lastHash' # lastHash
                 /\ targetHash.p = "val"
                 /\ lastHash'.inputHash = targetHash.v)
          /\ isAuthenticated => isAuthenticated'
          /\ authFlag' # authFlag => authFlag' = Flag("true")]_vars

\* A refused word, then the secret word typed with a capital, then a reload.
C28_Witness ==
    /\ isAuthenticated
    /\ ~loginMounted
    /\ authFlag = Flag("true")
    /\ submits = 2
    /\ lastHash = [id |-> 2, inputHash |-> sha256(<<"e", "x">>)]
    /\ password = <<>>
    /\ ~isVerifying

====
